---------------------------- MODULE Spec2Model ----------------------------
(***************************************************************************)
(* Model of the ESO AddOn manifest parser (src/src/lib.rs).                *)
(*                                                                         *)
(* A line of text is a TLA+ string; character i of s is SubSeq(s, i, i).   *)
(* Option<T> is a sequence of length 0 (None) or 1 (Some(v)).              *)
(* A ManifestError is the pair <<variant, payload>>.                       *)
(* An unwrap() of an Err value panics: the process is aborted and no       *)
(* record is returned (pc = "panicked").                                   *)
(***************************************************************************)
EXTENDS Integers, Sequences, FiniteSets, TLC

VARIABLES
    full_validate,  \* parse(): full_validate.unwrap_or_default()
    result,         \* parse(): the AddonManifest being filled
    lines,          \* the lines reader.lines() has yielded so far, in order
    pc,             \* parse(): "loop", "done" (Ok(result)) or "panicked"
    input,          \* parse_depends_tests: the input string
    output,         \* parse_depends_tests: the Vec<DependsEntry> returned
    tpc             \* parse_depends_tests: "idle", "call", "returned", "panicked"

vars == <<full_validate, result, lines, pc, input, output, tpc>>

(***************************************************************************)
(* Bounds of the model.                                                    *)
(***************************************************************************)
MaxLines == 2       \* lines per manifest
MaxTokens == 2      \* tokens per generated dependency value

(***************************************************************************)
(* Program constants.                                                      *)
(***************************************************************************)
MaxLineBytes == 301
MaxTitleChars == 64
MaxCommentChars == 1024
MinApiVersion == 100003

(***************************************************************************)
(* Strings.                                                                *)
(***************************************************************************)
Char(s, i) == SubSeq(s, i, i)

Idx(s) == 1 .. Len(s)

Suffix(s, i) == SubSeq(s, i, Len(s))

RECURSIVE Rep(_, _)
Rep(s, n) ==
    IF n = 0 THEN ""
    ELSE LET h == Rep(s, n \div 2)
         IN  IF n % 2 = 0 THEN h \o h ELSE h \o h \o s

WhiteSpace == {" ", "\t", "\r"}

Digits == {"0", "1", "2", "3", "4", "5", "6", "7", "8", "9"}

DigitVal(c) ==
    CASE c = "0" -> 0 [] c = "1" -> 1 [] c = "2" -> 2 [] c = "3" -> 3
      [] c = "4" -> 4 [] c = "5" -> 5 [] c = "6" -> 6 [] c = "7" -> 7
      [] c = "8" -> 8 [] c = "9" -> 9

\* Characters whose UTF-8 encoding takes two bytes; every other character
\* of the inputs is ASCII.
TwoByteChars == {"é"}

\* str::len(): the length in bytes of the UTF-8 encoding
len(s) == Len(s) + Cardinality({i \in Idx(s) : Char(s, i) \in TwoByteChars})

\* str::chars().count()
chars_count(s) == Len(s)

\* str::starts_with
starts_with(s, p) == Len(s) >= Len(p) /\ SubSeq(s, 1, Len(p)) = p

\* str::trim().is_empty()
trim_is_empty(s) == \A i \in Idx(s) : Char(s, i) \in WhiteSpace

\* str::contains(' ')
contains_space(s) == \E i \in Idx(s) : Char(s, i) = " "

\* str::split(' ').collect(): the pieces between successive spaces
split(s) ==
    LET sp == {i \in Idx(s) : Char(s, i) = " "}
        n == Cardinality(sp)
        \* position of the k-th space; 0 and Len(s) + 1 are the two ends
        pos(k) == IF k = 0 THEN 0
                  ELSE IF k = n + 1 THEN Len(s) + 1
                  ELSE CHOOSE p \in sp : Cardinality({q \in sp : q < p}) = k - 1
    IN  [k \in 1 .. n + 1 |-> SubSeq(s, pos(k - 1) + 1, pos(k) - 1)]

(***************************************************************************)
(* Option and Result values.                                               *)
(***************************************************************************)
None == <<>>

Some(v) == <<v>>

Ok(v) == [ok |-> TRUE, val |-> v]

Err == [ok |-> FALSE]

\* u32::MAX = 4294967295, as decimal digits
U32MaxDigits == "4294967295"

\* s <= t for two digit strings of the same length
RECURSIVE DigitsLeq(_, _)
DigitsLeq(s, t) ==
    IF s = "" THEN TRUE
    ELSE IF DigitVal(Char(s, 1)) # DigitVal(Char(t, 1))
         THEN DigitVal(Char(s, 1)) < DigitVal(Char(t, 1))
         ELSE DigitsLeq(Suffix(s, 2), Suffix(t, 2))

RECURSIVE DigitsValue(_, _)
DigitsValue(s, acc) ==
    IF s = "" THEN acc
    ELSE DigitsValue(Suffix(s, 2), acc * 10 + DigitVal(Char(s, 1)))

\* str::parse::<u32>(): an optional '+', then one or more decimal digits
\* whose value fits in 32 bits
parse_u32(s) ==
    LET body == IF starts_with(s, "+") THEN Suffix(s, 2) ELSE s
        nz == {i \in Idx(body) : Char(body, i) # "0"}
        sig == IF nz = {} THEN ""
               ELSE Suffix(body, CHOOSE i \in nz : \A j \in nz : i <= j)
    IN  IF body = "" \/ \E i \in Idx(body) : Char(body, i) \notin Digits
        THEN Err
        ELSE IF Len(sig) > Len(U32MaxDigits)
                  \/ (Len(sig) = Len(U32MaxDigits) /\ ~DigitsLeq(sig, U32MaxDigits))
        THEN Err
        ELSE Ok(DigitsValue(sig, 0))

\* str::parse::<bool>()
parse_bool(s) ==
    IF s = "true" THEN Ok(TRUE)
    ELSE IF s = "false" THEN Ok(FALSE)
    ELSE Err

(***************************************************************************)
(* The two regular expressions.                                            *)
(***************************************************************************)
\* RE_DIRECTIVE = ^## (?P<directive>.*): (?P<value>.*)
\* Both groups are greedy: the directive group extends to the last ": " of
\* the line.  None when the line has no ": " after the "## " prefix.
RE_DIRECTIVE(line) ==
    LET seps == {i \in 4 .. Len(line) - 1 :
                    Char(line, i) = ":" /\ Char(line, i + 1) = " "}
        at == CHOOSE i \in seps : \A j \in seps : j <= i
    IN  IF ~starts_with(line, "## ") \/ seps = {} THEN None
        ELSE Some([directive |-> SubSeq(line, 4, at - 1),
                   value |-> Suffix(line, at + 2)])

Comparators == {"<", "=", ">"}

\* the name group made greedy: it takes the whole token
RE_DEPENDS_greedy_name(val) ==
    IF val = "" THEN None
    ELSE Some([name |-> Some(val), version |-> None])

\* RE_DEPENDS = ^(?P<name>.+?)(([<=>]+)(?P<version>.*))?$
\* The name group is lazy and takes at least one character, whatever it
\* is; it ends before the first comparator found from the second character
\* on.  The version group is what follows the run of comparators.
RE_DEPENDS(val) ==
    LET cmps == {i \in 2 .. Len(val) : Char(val, i) \in Comparators}
        first == CHOOSE i \in cmps : \A j \in cmps : i <= j
        after == {i \in first .. Len(val) + 1 :
                     \A j \in first .. i - 1 : Char(val, j) \in Comparators}
        stop == CHOOSE i \in after : \A j \in after : j <= i
    IN  IF val = "" THEN None
        ELSE IF cmps = {} THEN Some([name |-> Some(val), version |-> None])
        ELSE Some([name |-> Some(SubSeq(val, 1, first - 1)),
                   version |-> Some(Suffix(val, stop))])


(***************************************************************************)
(* LineType::from_line                                                     *)
(***************************************************************************)
from_line(line) ==
    IF starts_with(line, "## ") THEN "Directive"
    ELSE IF starts_with(line, "#") \/ starts_with(line, ";") THEN "Comment"
    ELSE IF trim_is_empty(line) THEN "Blank"
    ELSE "Data"

(***************************************************************************)
(* The record and its errors.                                              *)
(***************************************************************************)
DependsEntry(title, version) == [title |-> title, version |-> version]

\* the AddonManifest built at the start of parse(), equal to
\* AddonManifest::default()
EmptyManifest ==
    [title |-> "", author |-> "", api_version |-> 0, api_version_2 |-> None,
     addon_version |-> None, version |-> None, depends_on |-> <<>>,
     optional_depends_on |-> <<>>, is_library |-> None,
     errors |-> <<>>, warnings |-> <<>>]

ManifestError(kind, payload) == <<kind, payload>>

push_error(r, e) == [r EXCEPT !.errors = Append(@, e)]

\* the warning pushed on errors
push_warning_on_errors(r, e) == [r EXCEPT !.errors = Append(@, e)]

push_warning(r, e) == [r EXCEPT !.warnings = Append(@, e)]

Returned(r) == [panic |-> FALSE, result |-> r]

\* an unwrap() on Err: r is the record at the moment of the panic
Panicked(r) == [panic |-> TRUE, result |-> r]

(***************************************************************************)
(* AddonManifestParser::parse_depends                                      *)
(***************************************************************************)
\* the body of the loop over the tokens, from token k on, result so far acc
RECURSIVE parse_depends_from(_, _, _)
parse_depends_from(values, k, acc) ==
    IF k > Len(values) THEN [panic |-> FALSE, entries |-> acc]
    ELSE
      LET captures == RE_DEPENDS(values[k])
          caps == captures[1]
          title == IF caps.name # None THEN caps.name[1] ELSE ""
          parsed == parse_u32(caps.version[1])
          version == IF caps.version # None THEN Some(parsed.val) ELSE None
      IN  IF captures = None THEN parse_depends_from(values, k + 1, acc)
          ELSE IF caps.version # None /\ ~parsed.ok
          THEN [panic |-> TRUE, entries |-> acc]
          ELSE IF title # ""
          THEN parse_depends_from(values, k + 1,
                                  Append(acc, DependsEntry(title, version)))
          ELSE parse_depends_from(values, k + 1, acc)

parse_depends(line) == parse_depends_from(split(line), 1, <<>>)

(***************************************************************************)
(* AddonManifestParser::parse_line                                         *)
(***************************************************************************)
\* the match on the directive name; r is the record, errors of the line
\* length check included
dispatch(directive, value, r, fv) ==
    CASE directive = "Title" ->
           LET char_len == chars_count(value)
               r1 == IF fv /\ char_len > MaxTitleChars
                     THEN push_error(r, ManifestError("TitleLength", char_len))
                     ELSE r
           IN  Returned([r1 EXCEPT !.title = value])
      [] directive = "Author" ->
           Returned([r EXCEPT !.author = value])
      [] directive = "APIVersion" ->
           IF contains_space(value)
           THEN LET pieces == split(value)
                    values == [k \in DOMAIN pieces |-> parse_u32(pieces[k])]
                IN  IF \E k \in DOMAIN values : ~values[k].ok
                    THEN Panicked(r)
                    ELSE Returned([r EXCEPT !.api_version = values[1].val,
                                            !.api_version_2 = Some(values[2].val)])
           ELSE LET parsed == parse_u32(value)
                IN  IF ~parsed.ok THEN Panicked(r)
                    ELSE Returned([r EXCEPT !.api_version = parsed.val])
      [] directive = "AddOnVersion" ->
           LET parsed == parse_u32(value)
           IN  IF ~parsed.ok THEN Panicked(r)
               ELSE Returned([r EXCEPT !.addon_version = Some(parsed.val)])
      [] directive = "Version" ->
           Returned([r EXCEPT !.version = Some(value)])
      [] directive = "DependsOn" ->
           LET depends == parse_depends(value)
           IN  IF depends.panic THEN Panicked(r)
               ELSE Returned([r EXCEPT !.depends_on = @ \o depends.entries])
      [] directive = "OptionalDependsOn" ->
           LET depends == parse_depends(value)
           IN  IF depends.panic THEN Panicked(r)
               ELSE Returned([r EXCEPT !.optional_depends_on = @ \o depends.entries])
      [] directive = "IsLibrary" ->
           LET parsed == parse_bool(value)
           IN  IF ~parsed.ok THEN Panicked(r)
               ELSE Returned([r EXCEPT !.is_library = Some(parsed.val)])
      [] OTHER ->
           Returned(push_warning(r, ManifestError("UnmappedDirective", value)))

\* the length check made on characters, not bytes
parse_directive_char_len(line, r, fv) ==
    LET dir_captures == RE_DIRECTIVE(line)
        captures == dir_captures[1]
        r1 == IF fv /\ chars_count(line) > MaxLineBytes
              THEN push_error(r, ManifestError("LineLength", chars_count(line)))
              ELSE r
    IN  IF dir_captures = None
        THEN Returned(push_error(r, ManifestError("InvalidDirective", line)))
        ELSE dispatch(captures.directive, captures.value, r1, fv)

\* the Directive arm: a regex match always carries both groups, so the two
\* is_none() returns are never taken
parse_directive(line, r, fv) ==
    LET dir_captures == RE_DIRECTIVE(line)
        captures == dir_captures[1]
        r1 == IF fv /\ len(line) > MaxLineBytes
              THEN push_error(r, ManifestError("LineLength", len(line)))
              ELSE r
    IN  IF dir_captures = None
        THEN Returned(push_error(r, ManifestError("InvalidDirective", line)))
        ELSE dispatch(captures.directive, captures.value, r1, fv)

\* the comment length checked whatever the validation mode
parse_comment_unconditional(line, r, fv) ==
    LET char_len == chars_count(line)
    IN  IF char_len > MaxCommentChars
        THEN push_error(r, ManifestError("CommentLength", char_len))
        ELSE r

\* the Comment arm
parse_comment(line, r, fv) ==
    LET char_len == chars_count(line)
    IN  IF fv /\ char_len > MaxCommentChars
        THEN push_error(r, ManifestError("CommentLength", char_len))
        ELSE r

parse_line(line, r, fv) ==
    LET line_type == from_line(line)
    IN  CASE line_type = "Directive" -> parse_directive(line, r, fv)
          [] line_type = "Comment" -> Returned(parse_comment(line, r, fv))
          [] line_type = "Blank" -> Returned(r)
          [] line_type = "Data" -> Returned(r)

(***************************************************************************)
(* AddonManifestParser::parse, after the loop: the end-of-stream checks    *)
(***************************************************************************)
\* the checks stopped at the first one that fails
validate_fail_fast(r, fv) ==
    IF ~fv THEN r
    ELSE IF trim_is_empty(r.title)
    THEN push_error(r, ManifestError("MissingDirective", "Title"))
    ELSE IF trim_is_empty(r.author)
    THEN push_error(r, ManifestError("MissingDirective", "Author"))
    ELSE IF r.api_version < MinApiVersion
    THEN push_error(r, ManifestError("ApiMinimumVersion", r.api_version))
    ELSE r

validate(r, fv) ==
    LET r1 == IF trim_is_empty(r.title)
              THEN push_error(r, ManifestError("MissingDirective", "Title"))
              ELSE r
        r2 == IF trim_is_empty(r1.author)
              THEN push_error(r1, ManifestError("MissingDirective", "Author"))
              ELSE r1
        r3 == IF r2.api_version < MinApiVersion
              THEN push_error(r2, ManifestError("ApiMinimumVersion", r2.api_version))
              ELSE r2
    IN  IF fv THEN r3 ELSE r

(***************************************************************************)
(* The lines a manifest file is made of.                                   *)
(***************************************************************************)
ShortLines ==
    {"## Title: SomeTitle",
     "## Title: A: B",
     "## Title: \t ",
     "## Author: TheAuthor",
     "## Author: ",
     "## APIVersion: 101037",
     "## APIVersion: 100002 101038",
     "## APIVersion: 101037 ",
     "## APIVersion: 4294967296",
     "## AddOnVersion: 27",
     "## AddOnVersion: r5",
     "## Version: 1.20",
     "## DependsOn: CustomLib>=4 OtherLib",
     "## DependsOn: OtherLib",
     "## DependsOn: LibA: LibB",
     "## DependsOn: >=5  \t",
     "## DependsOn: LibA>=x",
     "## OptionalDependsOn: LibOther<=5",
     "## IsLibrary: true",
     "## IsLibrary: yes",
     "## Credits: SomeName",
     "## title: lower",
     "## NoSeparator",
     "##Title: x",
     "; comment",
     "",
     " \t",
     "file.lua"}

LongLines ==
    {"## Credits: " \o Rep("x", 290),              \* 302 bytes
     "## Credits: " \o Rep("x", 289),              \* 301 bytes
     "## Credits: é" \o Rep("x", 288),             \* 301 characters, 302 bytes
     "## " \o Rep("x", 299),                       \* 302 bytes, no separator
     "## Title: " \o Rep("T", 64),                 \* title of 64 characters
     "## Title: " \o Rep("T", 65),                 \* title of 65 characters
     "## Title: " \o Rep("T", 292),                \* 302 bytes
     "## DependsOn: é" \o Rep("L", 286),           \* 301 characters, 302 bytes
     "## AddOnVersion: " \o Rep("x", 285),         \* 302 bytes, not a number
     "#" \o Rep("c", 1023),                        \* comment of 1024 characters
     ";" \o Rep("c", 1024)}                        \* comment of 1025 characters

Lines == ShortLines \cup LongLines

(***************************************************************************)
(* The inputs of the parse_depends tests: values written from a list of    *)
(* tokens <name>[<comparator-run><integer>], and a few other strings.      *)
(***************************************************************************)
TokNames == {"LibLibrary", "b-2"}

TokRuns == {">=", "<"}

TokVersions == {0, 20}

Tokens ==
    [name : TokNames, version : {None}, run : {""}]
        \cup [name : TokNames, version : {Some(v) : v \in TokVersions}, run : TokRuns]

TokenLists == UNION {[1 .. n -> Tokens] : n \in 1 .. MaxTokens}

DigitChar(d) == CHOOSE c \in Digits : DigitVal(c) = d

\* the decimal numeral of n
RECURSIVE ToDecimal(_)
ToDecimal(n) ==
    IF n < 10 THEN DigitChar(n)
    ELSE ToDecimal(n \div 10) \o DigitChar(n % 10)

WriteToken(t) ==
    IF t.version = None THEN t.name
    ELSE t.name \o t.run \o ToDecimal(t.version[1])

RECURSIVE WriteTokens(_)
WriteTokens(ts) ==
    IF Len(ts) = 1 THEN WriteToken(ts[1])
    ELSE WriteToken(ts[1]) \o " " \o WriteTokens(Tail(ts))

OtherDependsInputs ==
    {"", ">=5", "\t", "LibA  LibB", "LibA>=", "LibA>=x", "LibA>=1<2", "=",
     "LibA LibB>=-1", "LibA>=+3", "LibA>=007"}

DependsInputs == {WriteTokens(ts) : ts \in TokenLists} \cup OtherDependsInputs

(***************************************************************************)
(* parse(): the loop over the lines of the file, then the checks.          *)
(***************************************************************************)
Init ==
    /\ full_validate \in BOOLEAN
    /\ result = EmptyManifest
    /\ lines = <<>>
    /\ pc = "loop"
    /\ input = ""
    /\ output = <<>>
    /\ tpc = "idle"

\* one iteration of the loop: the reader yields a line, parse_line runs
ParseLine ==
    /\ pc = "loop"
    /\ Len(lines) < MaxLines
    /\ \E line \in Lines :
          LET r == parse_line(line, result, full_validate)
          IN  /\ lines' = Append(lines, line)
              /\ result' = r.result
              /\ pc' = IF r.panic THEN "panicked" ELSE "loop"
    /\ UNCHANGED <<full_validate, input, output, tpc>>

\* the reader yields Err: line.map_err(ReadLineError).unwrap() panics
ReadLineError ==
    /\ pc = "loop"
    /\ pc' = "panicked"
    /\ UNCHANGED <<full_validate, result, lines, input, output, tpc>>

\* the reader is exhausted: the end-of-stream checks, then Ok(result)
EndOfFile ==
    /\ pc = "loop"
    /\ result' = validate(result, full_validate)
    /\ pc' = "done"
    /\ UNCHANGED <<full_validate, lines, input, output, tpc>>

Next == ParseLine \/ ReadLineError \/ EndOfFile

Spec == Init /\ [][Next]_vars

(***************************************************************************)
(* parse_depends_tests: one call of parse_depends on an input string.      *)
(***************************************************************************)
InitDepends ==
    /\ full_validate = FALSE
    /\ result = EmptyManifest
    /\ lines = <<>>
    /\ pc = "idle"
    /\ input \in DependsInputs
    /\ output = <<>>
    /\ tpc = "call"

CallParseDepends ==
    /\ tpc = "call"
    /\ LET r == parse_depends(input)
       IN  /\ output' = r.entries
           /\ tpc' = IF r.panic THEN "panicked" ELSE "returned"
    /\ UNCHANGED <<full_validate, result, lines, pc, input>>

NextDepends == CallParseDepends

SpecDepends == InitDepends /\ [][NextDepends]_vars

(***************************************************************************)
(* Vocabulary of the properties.                                           *)
(***************************************************************************)
\* the line the last iteration of the loop processed
LastLine == lines[Len(lines)]

\* a step of the loop that processes one line
LineStep == lines' # lines

NewLine == lines'[Len(lines')]

\* the errors the step appended
NewErrors == SubSeq(result'.errors, Len(result.errors) + 1, Len(result'.errors))

NewWarnings == SubSeq(result'.warnings, Len(result.warnings) + 1, Len(result'.warnings))

AllButErrors(r) == [r EXCEPT !.errors = <<>>]

Fields(r) == [r EXCEPT !.errors = <<>>, !.warnings = <<>>]

OfKind(es, kinds) == SelectSeq(es, LAMBDA e : e[1] \in kinds)

KnownDirectives ==
    {"Title", "Author", "APIVersion", "AddOnVersion", "Version", "DependsOn",
     "OptionalDependsOn", "IsLibrary"}

\* The directive grammar "## <name>: <value>": the name runs to the FIRST
\* ": " of the line, the value is the rest of the line.
Separators(line) ==
    {i \in 4 .. Len(line) - 1 : Char(line, i) = ":" /\ Char(line, i + 1) = " "}

FirstSeparator(line) ==
    CHOOSE i \in Separators(line) : \A j \in Separators(line) : i <= j

WellFormedDirective(line) == starts_with(line, "## ") /\ Separators(line) # {}

DirectiveName(line) == SubSeq(line, 4, FirstSeparator(line) - 1)

DirectiveValue(line) == Suffix(line, FirstSeparator(line) + 2)

IsDirective(line, name) == WellFormedDirective(line) /\ DirectiveName(line) = name

(***************************************************************************)
(* C1.  Processing a line never aborts: whatever the line, parse_line      *)
(* returns and the loop goes on to the next line; a value that does not    *)
(* parse is recorded in errors.                                            *)
(***************************************************************************)
C1_ProcessLineNeverAborts ==
    [][LineStep => pc' = "loop"]_vars

(***************************************************************************)
(* C2.  After any sequence of lines, depends_on is the concatenation, in   *)
(* stream order, of the entries parsed from the value of each DependsOn    *)
(* directive, and optional_depends_on that of the OptionalDependsOn        *)
(* directives.                                                             *)
(***************************************************************************)
RECURSIVE EntriesOf(_, _)
EntriesOf(ls, name) ==
    IF ls = <<>> THEN <<>>
    ELSE (IF IsDirective(Head(ls), name)
          THEN parse_depends(DirectiveValue(Head(ls))).entries
          ELSE <<>>) \o EntriesOf(Tail(ls), name)

C2_ListsAccumulate ==
    pc \in {"loop", "done"} =>
        /\ result.depends_on = EntriesOf(lines, "DependsOn")
        /\ result.optional_depends_on = EntriesOf(lines, "OptionalDependsOn")

(***************************************************************************)
(* C3.  After any sequence of lines, title is the value of the last Title  *)
(* directive of the stream ("" when there is none) and author the value of *)
(* the last Author directive.                                              *)
(***************************************************************************)
RECURSIVE LastValueOf(_, _)
LastValueOf(ls, name) ==
    IF ls = <<>> THEN ""
    ELSE IF IsDirective(ls[Len(ls)], name) THEN DirectiveValue(ls[Len(ls)])
    ELSE LastValueOf(SubSeq(ls, 1, Len(ls) - 1), name)

C3_LastScalarWins ==
    pc \in {"loop", "done"} =>
        /\ result.title = LastValueOf(lines, "Title")
        /\ result.author = LastValueOf(lines, "Author")

(***************************************************************************)
(* C9.  A line "## <name>: <value>" is dispatched on the name that ends at *)
(* the FIRST ": " with everything after it as the value, so that           *)
(* "## Title: A: B" sets title to "A: B"; a line starting with "## " that  *)
(* has no ": " records InvalidDirective(line) and changes nothing else.    *)
(***************************************************************************)
C9_NameEndsAtFirstSeparator ==
    [][LineStep /\ starts_with(NewLine, "## ") =>
        IF WellFormedDirective(NewLine)
        THEN LET checked == IF full_validate /\ len(NewLine) > MaxLineBytes
                            THEN push_error(result,
                                     ManifestError("LineLength", len(NewLine)))
                            ELSE result
                 d == dispatch(DirectiveName(NewLine), DirectiveValue(NewLine),
                               checked, full_validate)
             IN  result' = d.result /\ (pc' = "panicked") = d.panic
        ELSE result' = push_error(result, ManifestError("InvalidDirective", NewLine))
    ]_vars

(***************************************************************************)
(* C10.  Every entry of depends_on and optional_depends_on has a title     *)
(* that is not empty after trimming and that does not start inside a run   *)
(* of comparators: a token with an empty or blank name part adds no entry. *)
(***************************************************************************)
C10_TitlesNotBlank ==
    \A e \in {result.depends_on[k] : k \in DOMAIN result.depends_on}
             \cup {result.optional_depends_on[k] : k \in DOMAIN result.optional_depends_on} :
        /\ ~trim_is_empty(e.title)
        /\ Char(e.title, 1) \notin Comparators

(***************************************************************************)
(* C4.  For a value written from a list of tokens <name> or                *)
(* <name><comparator-run><integer>, joined by single spaces, parse_depends *)
(* returns one entry per token, in token order, with the token's name as   *)
(* title and Some(integer) or None as version; equal names stay separate   *)
(* entries.                                                                *)
(***************************************************************************)
Written == [ts \in TokenLists |-> WriteTokens(ts)]

EntriesWritten(ts) == [k \in 1 .. Len(ts) |-> DependsEntry(ts[k].name, ts[k].version)]

C4_OneEntryPerToken ==
    \A ts \in TokenLists :
        input = Written[ts] =>
            /\ tpc # "panicked"
            /\ tpc = "returned" => output = EntriesWritten(ts)

C4_Witness ==
    /\ tpc = "returned"
    /\ \E ts \in TokenLists :
          /\ input = Written[ts]
          /\ Len(ts) = 2
          /\ ts[1].name = ts[2].name
          /\ ts[1].version # None
          /\ ts[2].version = None
    /\ Len(output) = 2

(***************************************************************************)
(* C5.  The end-of-stream checks run once, after the last line.  Under     *)
(* full validation they append to errors one entry per failing check, all  *)
(* three checks being made, in the order Title, Author, APIVersion, and    *)
(* change no other field; without full validation they append nothing.  A  *)
(* stream of no lines gives exactly the three errors and no warning.       *)
(***************************************************************************)
FailingChecks(r) ==
    (IF \A i \in Idx(r.title) : Char(r.title, i) \in WhiteSpace
     THEN <<ManifestError("MissingDirective", "Title")>> ELSE <<>>)
    \o (IF \A i \in Idx(r.author) : Char(r.author, i) \in WhiteSpace
        THEN <<ManifestError("MissingDirective", "Author")>> ELSE <<>>)
    \o (IF r.api_version < 100003
        THEN <<ManifestError("ApiMinimumVersion", r.api_version)>> ELSE <<>>)

C5_ValidatorStep ==
    pc = "loop" /\ pc' = "done" =>
        /\ NewErrors = (IF full_validate THEN FailingChecks(result) ELSE <<>>)
        /\ SubSeq(result'.errors, 1, Len(result.errors)) = result.errors
        /\ AllButErrors(result') = AllButErrors(result)

C5_NoLines ==
    pc = "done" /\ lines = <<>> /\ full_validate =>
        /\ result.errors = <<ManifestError("MissingDirective", "Title"),
                             ManifestError("MissingDirective", "Author"),
                             ManifestError("ApiMinimumVersion", 0)>>
        /\ result.warnings = <<>>

C5_Validator ==
    /\ [][C5_ValidatorStep]_vars
    /\ [][pc = "done" => result' = result]_vars
    /\ []C5_NoLines

C5_Witness ==
    /\ pc = "done"
    /\ full_validate
    /\ result.title = "SomeTitle"
    /\ result.errors = <<ManifestError("MissingDirective", "Author"),
                         ManifestError("ApiMinimumVersion", 0)>>

(***************************************************************************)
(* C6.  A well-formed directive line whose name is not a known directive   *)
(* appends exactly one UnmappedDirective warning and leaves the nine       *)
(* fields unchanged.  As claimed it appends nothing to errors; as amended  *)
(* it appends to errors only the LineLength entry that full validation     *)
(* adds for a line of more than 301 bytes.                                 *)
(***************************************************************************)
Unmapped(line) ==
    WellFormedDirective(line) /\ DirectiveName(line) \notin KnownDirectives

OneUnmappedWarning ==
    /\ pc' = "loop"
    /\ Len(NewWarnings) = 1
    /\ NewWarnings[1][1] = "UnmappedDirective"
    /\ SubSeq(result'.warnings, 1, Len(result.warnings)) = result.warnings
    /\ Fields(result') = Fields(result)

C6_UnmappedNoError ==
    [][LineStep /\ Unmapped(NewLine) =>
        OneUnmappedWarning /\ result'.errors = result.errors]_vars

C6_UnmappedOnlyWarns ==
    [][LineStep /\ Unmapped(NewLine) =>
        /\ OneUnmappedWarning
        /\ result'.errors = result.errors \o
              (IF full_validate /\ len(NewLine) > 301
               THEN <<ManifestError("LineLength", len(NewLine))>>
               ELSE <<>>)]_vars

C6_Witness ==
    /\ pc = "loop"
    /\ Len(lines) = 2
    /\ IsDirective(lines[1], "Title")
    /\ Unmapped(lines[2])
    /\ full_validate
    /\ len(lines[2]) > 301
    /\ result.title = "SomeTitle"
    /\ Len(result.warnings) = 1
    /\ Len(result.errors) = 1

(***************************************************************************)
(* C7.  Under full validation a directive line of more than 301 bytes      *)
(* appends exactly one LineLength(byte_len) error, a shorter one none, and *)
(* the directive is dispatched as it is without the length check.  As      *)
(* claimed this holds of every line that begins with "## "; as amended it  *)
(* holds of the lines that have the directive shape, and a line that       *)
(* begins with "## " and has no ": " appends InvalidDirective(line) alone, *)
(* whatever its length.                                                    *)
(***************************************************************************)
LengthKinds == {"LineLength", "TitleLength"}

DispatchedWithLengthCheck ==
    LET plain == parse_line(NewLine, result, FALSE)
        long == len(NewLine) > 301
    IN  /\ Len(OfKind(NewErrors, {"LineLength"})) = (IF long THEN 1 ELSE 0)
        /\ long => NewErrors[1] = ManifestError("LineLength", len(NewLine))
        /\ SubSeq(result'.errors, 1, Len(result.errors)) = result.errors
        /\ AllButErrors(result') = AllButErrors(plain.result)
        /\ (pc' = "panicked") = plain.panic
        /\ SelectSeq(NewErrors, LAMBDA e : e[1] \notin LengthKinds)
              = SubSeq(plain.result.errors, Len(result.errors) + 1,
                       Len(plain.result.errors))

C7_EveryDirectiveLine ==
    [][LineStep /\ full_validate /\ starts_with(NewLine, "## ") =>
        DispatchedWithLengthCheck]_vars

C7_WellFormedDirectiveLine ==
    [][LineStep /\ full_validate /\ starts_with(NewLine, "## ") =>
        IF WellFormedDirective(NewLine)
        THEN DispatchedWithLengthCheck
        ELSE /\ result' = push_error(result,
                              ManifestError("InvalidDirective", NewLine))
             /\ pc' = "loop"]_vars

C7_Witness ==
    /\ pc = "loop"
    /\ full_validate
    /\ lines # <<>>
    /\ IsDirective(LastLine, "DependsOn")
    /\ Len(LastLine) = 301
    /\ len(LastLine) = 302
    /\ result.errors = <<ManifestError("LineLength", 302)>>
    /\ Len(result.depends_on) = 1

(***************************************************************************)
(* C8.  Without full validation errors never holds a LineLength,           *)
(* TitleLength, CommentLength, MissingDirective or ApiMinimumVersion       *)
(* entry, only InvalidDirective entries; and a Comment, Blank or Data line *)
(* (any line that does not begin with "## ") leaves the whole record       *)
(* unchanged.                                                              *)
(***************************************************************************)
C8_OnlyGrammarErrors ==
    ~full_validate =>
        \A k \in DOMAIN result.errors : result.errors[k][1] = "InvalidDirective"

C8_IgnoredLine ==
    LineStep /\ ~full_validate /\ ~starts_with(NewLine, "## ") =>
        result' = result /\ pc' = "loop"

C8_StructuralOnly ==
    /\ []C8_OnlyGrammarErrors
    /\ [][C8_IgnoredLine]_vars

C8_Witness ==
    /\ pc = "done"
    /\ ~full_validate
    /\ Len(lines) = 2
    /\ starts_with(lines[1], ";")
    /\ Len(lines[1]) > 1024
    /\ IsDirective(lines[2], "Title")
    /\ len(lines[2]) > 301
    /\ Len(result.title) > 64
    /\ result.errors = <<>>

=============================================================================
